---- MODULE Spec2Model ----
(***************************************************************************)
(* egui-d3d11: the application container DirectX11App (src/app.rs) and its *)
(* entry points init_with_state_context, lock_state, present,              *)
(* resize_buffers and wnd_proc, called by host threads on one instance.    *)
(*                                                                         *)
(* AppData sits in a Mutex<Option<AppData>>; hwnd in a OnceCell.  An       *)
(* Option is modelled as a sequence of length 0 (None) or 1 (Some).        *)
(* A panic (expect!, panic_msg!, panic!, unwrap) unwinds the call: every   *)
(* guard the call holds is dropped and the call ends aborted.              *)
(*                                                                         *)
(* GpuMesh::from_mesh and the buffer constructors (src/mesh.rs) are pure:  *)
(* they are operators, used by present and, on arguments drawn from        *)
(* bounded sets, by the specification SpecMesh.                            *)
(***************************************************************************)
EXTENDS Integers, Sequences, FiniteSets, TLC

\* ---------------------------------------------------------------- bounds
MaxEvents == 2
MaxViews == 3
MaxPrims == 2
MaxSize == 2
MaxVerts == 1
MaxIdx == 6

\* ---------------------------------------------------------------- values
Threads == {"t1", "t2"}
Free == "free"

None == << >>
Some(x) == << x >>
is_some(o) == Len(o) = 1
is_none(o) == Len(o) = 0
unwrap(o) == o[1]

\* The pipeline state of the host's immediate device context that present
\* writes: one value per binding slot.
Slots == {"blend", "raster", "sampler", "viewport", "rtv", "topology", "layout",
          "scissor", "srv", "vbuf", "ibuf", "vs", "ps"}
HostConfigs == {"hostA", "hostB"}
Egui == "egui"

\* swap_desc.OutputWindow as GetDesc reports it; -1 is the invalid handle.
InvalidHwnd == -1
OutputWindows == {InvalidHwnd, 1}

HResults == {"S_OK", "E_FAIL"}
\* What tessellation makes of one shape: a mesh of whole triangles, a mesh
\* whose index count is not a multiple of 3, or a paint callback.
PrimKinds == {"mesh", "degenerate", "callback"}

VARIABLES
    hwnd,       \* DirectX11App.hwnd : OnceCell<HWND>
    data,       \* DirectX11App.data : Option<AppData>, the value inside the Mutex
    lock,       \* the Mutex of data: Free or the thread that holds a guard
    pipeline,   \* the device context's pipeline state, [Slots -> value]
    pc,         \* position of each thread in its current call
    loc,        \* locals of each thread's current call
    nextView,   \* id the device gives the next render-target view it creates
    nextEvent,  \* id of the next input event the collector queues
    delivered,  \* for each event id, the number of GUI runs it was handed to
    consumed,   \* events wnd_proc reported consumed since the last GUI run,
                \* each with the thread whose call queued it
    installs,   \* number of initialize calls that stored an AppData
    conv        \* one GpuMesh conversion on its own: its arguments, the
                \* result of from_mesh and the buffers created for it

vars == << hwnd, data, lock, pipeline, pc, loc, nextView, nextEvent,
           delivered, consumed, installs, conv >>

\* ---------------------------------------------------------------- locals
NoCall ==
    [ op |-> "none",        \* entry point of the current call
      who |-> "",           \* init: the ui / ctx / state arguments of this call
      view |-> None,        \* init: render_view created; resize: view taken out
      snap |-> None,        \* present: pipeline captured by backup.save
      end_pipe |-> None,    \* present: pipeline when the call ended
      bound |-> FALSE,      \* present: bound one of its own states
      used |-> None,        \* present: render_view it cleared or bound
      no_view |-> FALSE,    \* present: found render_view None at line 293
      draws |-> 0,          \* present: DrawIndexed calls issued
      ran |-> FALSE,        \* present: the GUI run happened
      batch |-> << >>,      \* present: events handed to the GUI run
      expected |-> << >>,   \* present: events reported consumed before the run
      raced |-> FALSE,      \* present: drained while an append was in progress
      cross |-> FALSE,      \* present: the batch holds another thread's event
      shapes |-> FALSE,     \* present: output.shapes is non-empty
      tess |-> << >>,       \* present: kinds of the tessellated primitives
      prims |-> << >>,      \* present: meshes still to draw
      buffers |-> 0,        \* present: GPU buffers created
      log |-> << >>,        \* present: one entry per DrawIndexed call
      calls |-> 0,          \* resize: invocations of the host callback
      result |-> "",        \* resize: HRESULT of the callback
      ret |-> "",           \* value returned to the caller
      locked |-> FALSE ]    \* the call obtained its guard on the state

\* No conversion is under way outside the conversion's own specification.
NoConv == [stage |-> "none"]

SetLoc(t, r) == loc' = [loc EXCEPT ![t] = r]
Goto(t, p) == pc' = [pc EXCEPT ![t] = p]

\* ---------------------------------------------------------------- Init
Init ==
    /\ hwnd = None
    /\ data = None
    /\ lock = Free
    /\ pipeline \in {[s \in Slots |-> h] : h \in HostConfigs}
    /\ pc = [t \in Threads |-> "idle"]
    /\ loc = [t \in Threads |-> NoCall]
    /\ nextView = 1
    /\ nextEvent = 1
    /\ delivered = [e \in 1..MaxEvents |-> 0]
    /\ consumed = << >>
    /\ installs = 0
    /\ conv = NoConv

\* ---------------------------------------------------------------- helpers
\* A call that has ended hands its outcome to its caller before any thread
\* takes another step: leave(t) touches nothing but the locals of t.
Ended == {"returned", "aborted"}
at(t, p) == pc[t] = p /\ \A u \in Threads : pc[u] \notin Ended

Call(op) == [NoCall EXCEPT !.op = op]

\* The AppData built at the end of init_with_state_context.  ui, ctx and
\* state are the arguments of that call, named by the calling thread; the
\* input collector starts with an empty queue and the backup empty.
AppData(who, render_view) ==
    [ render_view |-> render_view,
      ui |-> who,
      ctx |-> who,
      state |-> who,
      input_collector |-> << >>,
      backup |-> None ]

this == unwrap(data)
SetData(f) == data' = Some(f)

\* A panic inside a call: the stack unwinds, the guard the call holds (if
\* any) is dropped, which unlocks the mutex, and the call ends aborted.
unwind(t, r) ==
    /\ Goto(t, "aborted")
    /\ SetLoc(t, r)
    /\ lock' = IF lock = t THEN Free ELSE lock

\* A call ends normally: its locals go out of scope, the guard with them.
return(t, r) ==
    /\ Goto(t, "returned")
    /\ SetLoc(t, r)
    /\ lock' = IF lock = t THEN Free ELSE lock

\* is_ready(): hwnd.get().is_some()
is_ready == is_some(hwnd)

\* The results of one run of the ui closure: empty shapes, some shapes, or
\* a call back into this instance (lock_state or wnd_proc).
UiRuns == {"empty", "shapes", "reenter"}

\* data.lock() called by a thread inside one of its own calls.  The Mutex is
\* not re-entrant: while the thread's outer guard is alive the inner lock()
\* waits (position blocked) for a release that only the waiting thread
\* could perform; it goes on (position next) only if the mutex is free.
relock(t, blocked, next) == IF lock = t THEN blocked ELSE next

\* lock_data whose map closure does not expect Some(AppData).
lock_data_unchecked(t, call, next) ==
    /\ lock = Free
    /\ lock' = t
    /\ Goto(t, next)
    /\ SetLoc(t, [call EXCEPT !.locked = TRUE])

\* lock_data with a lock that admits a second holder.
lock_data_shared(t, call, next) ==
    IF is_some(data)
      THEN /\ lock' = t
           /\ Goto(t, next)
           /\ SetLoc(t, [call EXCEPT !.locked = TRUE])
      ELSE /\ lock' = lock
           /\ Goto(t, "aborted")
           /\ SetLoc(t, call)

\* lock_data whose panic on None leaks the guard instead of dropping it.
lock_data_leaked(t, call, next) ==
    /\ lock = Free
    /\ lock' = t
    /\ IF is_some(data)
         THEN /\ Goto(t, next)
              /\ SetLoc(t, [call EXCEPT !.locked = TRUE])
         ELSE /\ Goto(t, "aborted")
              /\ SetLoc(t, call)

\* lock_data(): data.lock() waits for the mutex, then the map closure
\* expects Some(AppData); on None it panics and the guard is dropped.
lock_data(t, call, next) ==
    /\ lock = Free
    /\ IF is_some(data)
         THEN /\ lock' = t
              /\ Goto(t, next)
              /\ SetLoc(t, [call EXCEPT !.locked = TRUE])
         ELSE /\ lock' = Free
              /\ Goto(t, "aborted")
              /\ SetLoc(t, call)

\* ---------------------------------------------------------------- initialize
\* init_with_state_context, line 125: the only-once check on hwnd.
init_check(t) ==
    /\ at(t, "idle")
    /\ IF is_some(hwnd)
         THEN unwind(t, Call("init"))
         ELSE /\ Goto(t, "i_desc")
              /\ SetLoc(t, [Call("init") EXCEPT !.who = t])
              /\ UNCHANGED lock
    /\ UNCHANGED << conv, hwnd, data, pipeline, nextView, nextEvent, delivered,
                    consumed, installs >>

\* lines 129-140: GetDesc, the invalid-window check, hwnd.set (OnceCell::set
\* keeps the first value and its result is discarded).
init_hwnd(t) ==
    /\ at(t, "i_desc")
    /\ \E desc_ok \in BOOLEAN, w \in OutputWindows :
         IF ~desc_ok \/ w = InvalidHwnd
           THEN unwind(t, loc[t]) /\ UNCHANGED hwnd
           ELSE /\ hwnd' = IF is_none(hwnd) THEN Some(w) ELSE hwnd
                /\ Goto(t, "i_create")
                /\ UNCHANGED << loc, lock >>
    /\ UNCHANGED << conv, data, pipeline, nextView, nextEvent, delivered, consumed,
                    installs >>

\* lines 142-168: GetDevice, GetBuffer, CreateRenderTargetView,
\* CompiledShaders::new, CreateInputLayout; each failure panics.
init_create(t) ==
    /\ at(t, "i_create")
    /\ \E ok \in BOOLEAN :
         IF ~ok
           THEN unwind(t, loc[t]) /\ UNCHANGED nextView
           ELSE /\ nextView <= MaxViews
                /\ nextView' = nextView + 1
                /\ Goto(t, "i_install")
                /\ SetLoc(t, [loc[t] EXCEPT !.view = Some(nextView)])
                /\ UNCHANGED lock
    /\ UNCHANGED << conv, hwnd, data, pipeline, nextEvent, delivered, consumed,
                    installs >>

\* lines 170-180: *self.data.lock() = Some(AppData { .. }); the guard is a
\* temporary of the assignment.
init_install(t) ==
    /\ at(t, "i_install")
    /\ lock = Free
    /\ data' = Some(AppData(loc[t].who, loc[t].view))
    /\ installs' = installs + 1
    /\ return(t, loc[t])
    /\ UNCHANGED << conv, hwnd, pipeline, nextView, nextEvent, delivered, consumed >>

\* ---------------------------------------------------------------- lock_state
\* lock_state(): data.lock(), then the map closure unwraps the Option.
lock_state(t) ==
    /\ at(t, "idle")
    /\ lock = Free
    /\ IF is_some(data)
         THEN /\ lock' = t
              /\ Goto(t, "ls_held")
              /\ SetLoc(t, [Call("lock_state") EXCEPT !.locked = TRUE])
         ELSE /\ lock' = Free
              /\ Goto(t, "aborted")
              /\ SetLoc(t, Call("lock_state"))
    /\ UNCHANGED << conv, hwnd, data, pipeline, nextView, nextEvent, delivered,
                    consumed, installs >>

\* The caller of lock_state drops the MappedMutexGuard it was given.
lock_state_drop(t) ==
    /\ at(t, "ls_held")
    /\ return(t, loc[t])
    /\ UNCHANGED << conv, hwnd, data, pipeline, nextView, nextEvent, delivered,
                    consumed, installs >>

\* ---------------------------------------------------------------- input
\* InputCollector::process: a recognized message appends one event to the
\* pending queue and is reported consumed; any other message changes nothing.
process(queue, recognized, id) ==
    IF recognized THEN Append(queue, id) ELSE queue

\* InputCollector::collect_input: hands out the whole pending queue in
\* arrival order and leaves it empty.
collect_input(queue) == [batch |-> queue, queue |-> << >>]

\* ---------------------------------------------------------------- wnd_proc
\* wnd_proc, line 377: self.lock_data()
wnd_proc_lock(t) ==
    /\ at(t, "idle")
    /\ lock_data(t, Call("wnd_proc"), "wp_process")
    /\ UNCHANGED << conv, hwnd, data, pipeline, nextView, nextEvent, delivered,
                    consumed, installs >>

\* lines 378-379: input_collector.process classifies the message; an
\* unrecognized one returns at once, a recognized one starts its append.
wnd_proc_process(t) ==
    /\ at(t, "wp_process")
    /\ \E recognized \in BOOLEAN :
         IF recognized
           THEN /\ nextEvent <= MaxEvents
                /\ Goto(t, "wp_append")
                /\ UNCHANGED << loc, lock >>
           ELSE return(t, [loc[t] EXCEPT !.ret = "ignored"])
    /\ UNCHANGED << conv, hwnd, data, pipeline, nextView, nextEvent, delivered,
                    consumed, installs >>

\* lines 378-380: the append completes, process returns consumed and the
\* temporary guard is dropped at the end of the statement.
wnd_proc_append(t) ==
    /\ at(t, "wp_append")
    /\ is_some(data)
    /\ SetData([this EXCEPT !.input_collector = process(@, TRUE, nextEvent)])
    /\ nextEvent' = nextEvent + 1
    /\ consumed' = Append(consumed, [id |-> nextEvent, by |-> t])
    /\ return(t, [loc[t] EXCEPT !.ret = "consumed"])
    /\ UNCHANGED << conv, hwnd, pipeline, nextView, delivered, installs >>

\* ---------------------------------------------------------------- backup
\* BackupState::save captures the pipeline state present is about to
\* overwrite; BackupState::restore applies the captured state again.
save(p) == Some(p)
restore(backup) == unwrap(backup)

\* ---------------------------------------------------------------- pipeline
Bind(p, slots) == [s \in Slots |-> IF s \in slots THEN Egui ELSE p[s]]

\* set_blend_state: CreateBlendState, expect!, OMSetBlendState.
set_blend_state(p, created) ==
    IF created THEN [pipe |-> Bind(p, {"blend"}), ok |-> TRUE]
               ELSE [pipe |-> p, ok |-> FALSE]

\* set_raster_options: CreateRasterizerState, expect!, RSSetState.
set_raster_options(p, created) ==
    IF created THEN [pipe |-> Bind(p, {"raster"}), ok |-> TRUE]
               ELSE [pipe |-> p, ok |-> FALSE]

\* set_sampler_state: CreateSamplerState, expect!, PSSetSamplers.
set_sampler_state(p, created) ==
    IF created THEN [pipe |-> Bind(p, {"sampler"}), ok |-> TRUE]
               ELSE [pipe |-> p, ok |-> FALSE]

\* present, lines 287-300: the three fixed states, the viewport, then the
\* render target (expect! on render_view), topology and input layout.
\* bound: one of the call's own states has been bound when it stops; used:
\* the view handed to OMSetRenderTargets; no_view: the expect! found None.
configure(p, blend_ok, raster_ok, sampler_ok, render_view) ==
    LET b == set_blend_state(p, blend_ok)
        r == set_raster_options(b.pipe, raster_ok)
        s == set_sampler_state(r.pipe, sampler_ok)
        v == Bind(s.pipe, {"viewport"})
    IN  IF ~b.ok THEN [pipe |-> b.pipe, ok |-> FALSE, bound |-> FALSE,
                           used |-> None, no_view |-> FALSE]
        ELSE IF ~r.ok THEN [pipe |-> r.pipe, ok |-> FALSE, bound |-> TRUE,
                            used |-> None, no_view |-> FALSE]
        ELSE IF ~s.ok THEN [pipe |-> s.pipe, ok |-> FALSE, bound |-> TRUE,
                            used |-> None, no_view |-> FALSE]
        ELSE IF is_none(render_view)
               THEN [pipe |-> v, ok |-> FALSE, bound |-> TRUE,
                     used |-> None, no_view |-> TRUE]
               ELSE [pipe |-> Bind(v, {"rtv", "topology", "layout"}),
                     ok |-> TRUE, bound |-> TRUE,
                     used |-> render_view, no_view |-> FALSE]

\* ---------------------------------------------------------------- f32
\* An f32 as an exact fraction num/den with den > 0; den = 0 stands for the
\* non-finite results of a division by zero: NaN (num = 0), +inf (num > 0)
\* and -inf (num < 0).  The values used are small enough that f32 computes
\* them without rounding; the sign of a zero is not kept.
f32(n, d) == [num |-> n, den |-> d]
from_i32(i) == f32(i, 1)
sub(a, b) == f32(a.num * b.den - b.num * a.den, a.den * b.den)
neg(a) == f32(-a.num, a.den)
sign(n) == IF n > 0 THEN 1 ELSE IF n < 0 THEN -1 ELSE 0
div(a, b) ==
    LET n == a.num * b.den
        d == a.den * b.num
    IN  IF d > 0 THEN f32(n, d)
        ELSE IF d < 0 THEN f32(-n, -d)
        ELSE f32(sign(n), 0)
half(a) == div(a, from_i32(2))

\* `x as i32` of a finite f32: truncation toward zero.
as_i32(a) == IF a.num >= 0 THEN a.num \div a.den ELSE -((-a.num) \div a.den)

\* ---------------------------------------------------------------- meshes
\* GetClientRect: the client area has its origin at (0, 0); it is 0 by 0
\* while the window is minimized.
ClientRects ==
    {[left |-> 0, top |-> 0, right |-> r, bottom |-> b] :
        r \in 0..MaxSize, b \in 0..MaxSize}

\* The client rectangle while a frame is presented: the window minimized
\* or at its full size.
FrameRects ==
    {rect \in ClientRects : rect.right = rect.bottom /\ rect.right \in {0, MaxSize}}

\* get_screen_size, lines 385-397.
get_screen_size(rect) ==
    << from_i32(rect.right - rect.left), from_i32(rect.bottom - rect.top) >>

\* The clip rectangle of the i-th primitive of a frame, in pixels (f32).
ClipOf(i) ==
    [left |-> from_i32(0), top |-> from_i32(0),
     right |-> f32(2 * i + 1, 2), bottom |-> f32(2 * i + 1, 2)]

\* epaint vertices with pixel positions on the grid of the client area, and
\* egui meshes: an index list, a vertex list and a texture id.
Vertices ==
    {[pos |-> << from_i32(x), from_i32(y) >>, uv |-> "uv", color |-> "color32"] :
        x \in 0..MaxSize, y \in 0..MaxSize}
VertexLists == UNION {[1..n -> Vertices] : n \in 0..MaxVerts}
Indices(n) == [k \in 1..n |-> k - 1]
Meshes ==
    {[indices |-> Indices(n), vertices |-> vs, texture_id |-> 1] :
        n \in 0..MaxIdx, vs \in VertexLists}

\* Color32 -> Rgba, the conversion behind v.color.into().
into_rgba(color) == << "rgba", color >>

\* GpuMesh::from_mesh with its mesh kept whatever the index count.
from_mesh_unfiltered(size, mesh, scissors) ==
    LET w == size[1]
        h == size[2]
    IN  Some([indices |-> mesh.indices,
              vertices |->
                [i \in 1..Len(mesh.vertices) |->
                   [pos |-> << div(sub(mesh.vertices[i].pos[1], half(w)), half(w)),
                               div(sub(mesh.vertices[i].pos[2], half(h)),
                                   neg(half(h))) >>,
                    uv |-> mesh.vertices[i].uv,
                    color |-> into_rgba(mesh.vertices[i].color)]],
              clip |-> scissors,
              texture_id |-> mesh.texture_id])

\* GpuMesh::from_mesh, mesh.rs lines 15-38: None for an empty index list or
\* one whose length is not a multiple of 3; otherwise the indices as they
\* are, each vertex with its position mapped from pixels to clip space, and
\* the scissor rectangle.  texture_id is the field app.rs line 306 reads.
from_mesh(size, mesh, scissors) ==
    LET w == size[1]
        h == size[2]
    IN  IF Len(mesh.indices) = 0 \/ Len(mesh.indices) % 3 # 0
          THEN None
          ELSE Some([indices |-> mesh.indices,
                     vertices |->
                       [i \in 1..Len(mesh.vertices) |->
                          [pos |-> << div(sub(mesh.vertices[i].pos[1], half(w)),
                                          half(w)),
                                      div(sub(mesh.vertices[i].pos[2], half(h)),
                                          neg(half(h))) >>,
                           uv |-> mesh.vertices[i].uv,
                           color |-> into_rgba(mesh.vertices[i].color)]],
                     clip |-> scissors,
                     texture_id |-> mesh.texture_id])

\* create_index_buffer and create_vertex_buffer, mesh.rs lines 58-98: the
\* buffer the device created, or None where expect! panics.
create_index_buffer(mesh, created) ==
    IF created THEN Some([elements |-> Len(mesh.indices)]) ELSE None
create_vertex_buffer(mesh, created) ==
    IF created THEN Some([elements |-> Len(mesh.vertices)]) ELSE None

\* The clipped primitives ctx.tessellate returns for shapes of the given
\* kinds: the i-th has the clip rectangle ClipOf(i) and texture id i.
tessellate(kinds) ==
    [i \in 1..Len(kinds) |->
       [clip_rect |-> ClipOf(i),
        kind |-> IF kinds[i] = "callback" THEN "callback" ELSE "mesh",
        mesh |-> [indices |-> Indices(IF kinds[i] = "mesh" THEN 3
                                      ELSE IF kinds[i] = "degenerate" THEN 2
                                      ELSE 0),
                  vertices |-> << >>,
                  texture_id |-> i]]]

\* filter_map whose closure skips a primitive that is not a mesh.
RECURSIVE filter_map_skipping(_, _)
filter_map_skipping(size, prims) ==
    IF prims = << >> THEN Some(<< >>)
    ELSE LET rest == filter_map_skipping(size, Tail(prims)) IN
         IF Head(prims).kind # "mesh" THEN rest
         ELSE Some(from_mesh(size, Head(prims).mesh, Head(prims).clip_rect)
                     \o unwrap(rest))

\* filter_map that hands the meshes on in reverse order.
RECURSIVE filter_map_reversed(_, _)
filter_map_reversed(size, prims) ==
    IF prims = << >> THEN Some(<< >>)
    ELSE IF Head(prims).kind # "mesh" THEN None
    ELSE LET rest == filter_map_reversed(size, Tail(prims)) IN
         IF is_none(rest) THEN None
         ELSE Some(unwrap(rest)
                     \o from_mesh(size, Head(prims).mesh, Head(prims).clip_rect))

\* present, lines 274-285: filter_map over the primitives in order, keeping
\* what from_mesh returns; None where the closure panics on a primitive
\* that is not a mesh.
RECURSIVE filter_map(_, _)
filter_map(size, prims) ==
    IF prims = << >> THEN Some(<< >>)
    ELSE IF Head(prims).kind # "mesh" THEN None
    ELSE LET rest == filter_map(size, Tail(prims)) IN
         IF is_none(rest) THEN None
         ELSE Some(from_mesh(size, Head(prims).mesh, Head(prims).clip_rect)
                     \o unwrap(rest))

PrimLists == UNION {[1..n -> PrimKinds] : n \in 0..MaxPrims}
HasCallback(prims) == \E i \in 1..Len(prims) : prims[i] = "callback"
Count(e, seq) == Cardinality({i \in 1..Len(seq) : seq[i] = e})

\* RSSetScissorRects, lines 308-313: the clip rectangle with each edge
\* converted by `as _` to the i32 of RECT.
RECT(clip) ==
    [left |-> as_i32(clip.left), top |-> as_i32(clip.top),
     right |-> as_i32(clip.right), bottom |-> as_i32(clip.bottom)]

\* ---------------------------------------------------------------- present
\* present, line 240: let this = &mut *self.lock_data(); the guard lives to
\* the end of the function body.
present_lock(t) ==
    /\ at(t, "idle")
    /\ lock_data(t, Call("present"), "p_begin")
    /\ UNCHANGED << conv, hwnd, data, pipeline, nextView, nextEvent, delivered,
                    consumed, installs >>

\* lines 242-253: get_device_and_context (expect! twice), backup.save,
\* get_screen_size (expect! on hwnd); a build with the feature "clear"
\* then clears render_view if there is one.
present_begin(t) ==
    /\ at(t, "p_begin")
    /\ is_some(data)
    /\ \E dev_ok \in BOOLEAN, clear \in BOOLEAN :
         IF ~dev_ok \/ is_none(hwnd)
           THEN IF dev_ok
                  THEN /\ SetData([this EXCEPT !.backup = save(pipeline)])
                       /\ unwind(t, [loc[t] EXCEPT !.snap = Some(pipeline),
                                                    !.end_pipe = Some(pipeline)])
                  ELSE unwind(t, loc[t]) /\ UNCHANGED data
           ELSE /\ SetData([this EXCEPT !.backup = save(pipeline)])
                /\ Goto(t, "p_run")
                /\ SetLoc(t, [loc[t] EXCEPT
                                !.snap = Some(pipeline),
                                !.used = IF clear THEN this.render_view ELSE None])
                /\ UNCHANGED lock
    /\ UNCHANGED << conv, hwnd, pipeline, nextView, nextEvent, delivered, consumed,
                    installs >>

\* present_run handing the GUI a copy of the queue and leaving the queue as
\* it is.
present_run_copy(t) ==
    /\ at(t, "p_run")
    /\ is_some(data)
    /\ LET got == [batch |-> this.input_collector] IN
       /\ delivered' = [e \in DOMAIN delivered |->
                           delivered[e] + Count(e, got.batch)]
       /\ consumed' = << >>
       /\ \E shapes \in BOOLEAN :
            SetLoc(t, [loc[t] EXCEPT
                         !.ran = TRUE,
                         !.batch = got.batch,
                         !.expected = [i \in 1..Len(consumed) |-> consumed[i].id],
                         !.cross = \E i \in 1..Len(consumed) : consumed[i].by # t,
                         !.raced = \E u \in Threads : pc[u] = "wp_append",
                         !.shapes = shapes])
    /\ Goto(t, "p_shapes")
    /\ UNCHANGED << conv, hwnd, data, lock, pipeline, nextView, nextEvent, installs >>

\* lines 255-267: collect_input drains the queue into ctx.run, which calls
\* the ui closure; the output's texture deltas go to the texture allocator
\* and its copied text to the clipboard; its shapes are empty or not.
\* The ui closure may itself call lock_state or wnd_proc on this instance:
\* that call's data.lock() waits for the guard present holds (line 240).
present_run(t) ==
    /\ at(t, "p_run")
    /\ is_some(data)
    /\ LET got == collect_input(this.input_collector) IN
       /\ SetData([this EXCEPT !.input_collector = got.queue])
       /\ delivered' = [e \in DOMAIN delivered |->
                           delivered[e] + Count(e, got.batch)]
       /\ consumed' = << >>
       /\ \E ui \in UiRuns :
            /\ SetLoc(t, [loc[t] EXCEPT
                         !.ran = TRUE,
                         !.batch = got.batch,
                         !.expected = [i \in 1..Len(consumed) |-> consumed[i].id],
                         !.cross = \E i \in 1..Len(consumed) : consumed[i].by # t,
                         !.raced = \E u \in Threads : pc[u] = "wp_append",
                         !.shapes = (ui = "shapes")])
            /\ Goto(t, IF ui = "reenter" THEN relock(t, "p_blocked", "p_shapes")
                                         ELSE "p_shapes")
    /\ UNCHANGED << conv, hwnd, lock, pipeline, nextView, nextEvent, installs >>

\* present_shapes without the early exit on empty shapes: an empty list is
\* tessellated (into nothing) and the call goes on to bind its states.
present_shapes_no_exit(t) ==
    /\ at(t, "p_shapes")
    /\ is_some(data)
    /\ \E kinds \in IF loc[t].shapes THEN PrimLists ELSE {<< >>},
          rect \in FrameRects :
         LET primitives == filter_map(get_screen_size(rect), tessellate(kinds)) IN
         IF is_none(primitives)
           THEN unwind(t, [loc[t] EXCEPT !.tess = kinds,
                                         !.end_pipe = Some(pipeline)])
           ELSE /\ Goto(t, "p_config")
                /\ SetLoc(t, [loc[t] EXCEPT !.tess = kinds,
                                            !.prims = unwrap(primitives)])
                /\ UNCHANGED lock
    /\ UNCHANGED << conv, hwnd, data, pipeline, nextView, nextEvent, delivered,
                    consumed, installs >>

\* lines 269-285: empty shapes restore and return; otherwise tessellate and
\* filter_map the primitives through from_mesh with the screen size read
\* at line 246, panicking on a callback.
present_shapes(t) ==
    /\ at(t, "p_shapes")
    /\ is_some(data)
    /\ IF ~loc[t].shapes
         THEN /\ pipeline' = restore(this.backup)
              /\ SetData([this EXCEPT !.backup = None])
              /\ return(t, [loc[t] EXCEPT !.end_pipe = Some(pipeline')])
         ELSE /\ \E kinds \in PrimLists, rect \in FrameRects :
                   LET primitives == filter_map(get_screen_size(rect),
                                                tessellate(kinds)) IN
                   IF is_none(primitives)
                     THEN unwind(t, [loc[t] EXCEPT !.tess = kinds,
                                                   !.end_pipe = Some(pipeline)])
                     ELSE /\ Goto(t, "p_config")
                          /\ SetLoc(t, [loc[t] EXCEPT
                                          !.tess = kinds,
                                          !.prims = unwrap(primitives)])
                          /\ UNCHANGED lock
              /\ UNCHANGED << pipeline, data >>
    /\ UNCHANGED << conv, hwnd, nextView, nextEvent, delivered, consumed, installs >>

\* lines 287-300: bind the fixed states, viewport, render target, topology
\* and input layout; a failed creation or a missing render_view panics.
present_config(t) ==
    /\ at(t, "p_config")
    /\ is_some(data)
    /\ \E blend_ok \in BOOLEAN, raster_ok \in BOOLEAN, sampler_ok \in BOOLEAN :
         LET c == configure(pipeline, blend_ok, raster_ok, sampler_ok,
                            this.render_view) IN
         /\ pipeline' = c.pipe
         /\ IF c.ok
              THEN /\ Goto(t, "p_draw")
                   /\ SetLoc(t, [loc[t] EXCEPT !.bound = c.bound,
                                               !.used = c.used])
                   /\ UNCHANGED lock
              ELSE unwind(t, [loc[t] EXCEPT !.bound = c.bound,
                                            !.no_view = c.no_view,
                                            !.end_pipe = Some(c.pipe)])
    /\ UNCHANGED << conv, hwnd, data, nextView, nextEvent, delivered, consumed,
                    installs >>

\* What one iteration of the loop leaves in the call's record: the buffers
\* it created and, if it got that far, its DrawIndexed call with the
\* scissor rectangle and the allocator texture at slot 0 at that moment
\* (None: slot 0 is as the call found it).
draw(call, mesh, idx, vtx, texture) ==
    IF is_none(idx) THEN [call EXCEPT !.buffers = @]
    ELSE IF is_none(vtx) THEN [call EXCEPT !.buffers = @ + 1]
    ELSE [call EXCEPT
            !.buffers = @ + 2,
            !.draws = @ + 1,
            !.prims = Tail(@),
            !.log = Append(@,
                [scissor |-> RECT(mesh.clip),
                 texture_id |-> mesh.texture_id,
                 found |-> is_some(texture),
                 srv |-> IF is_some(texture) THEN texture
                         ELSE IF call.log = << >> THEN None
                         ELSE call.log[Len(call.log)].srv,
                 count |-> Len(mesh.indices)])]

\* lines 302-331: one mesh of the loop: create_index_buffer and
\* create_vertex_buffer (expect!), the texture lookup, scissor, texture (only
\* if the lookup found one), vertex and index buffers, shaders, DrawIndexed.
present_mesh(t) ==
    /\ at(t, "p_draw")
    /\ loc[t].prims # << >>
    /\ \E idx_ok \in BOOLEAN, vtx_ok \in BOOLEAN, found \in BOOLEAN :
         LET mesh == Head(loc[t].prims)
             idx == create_index_buffer(mesh, idx_ok)
             vtx == create_vertex_buffer(mesh, vtx_ok)
             texture == IF found THEN Some(mesh.texture_id) ELSE None
         IN  IF is_none(idx) \/ is_none(vtx)
               THEN /\ unwind(t, [draw(loc[t], mesh, idx, vtx, texture)
                                    EXCEPT !.end_pipe = Some(pipeline)])
                    /\ UNCHANGED pipeline
               ELSE /\ pipeline' =
                         Bind(pipeline, {"scissor", "vbuf", "ibuf", "vs", "ps"}
                                 \cup (IF is_some(texture) THEN {"srv"} ELSE {}))
                    /\ SetLoc(t, draw(loc[t], mesh, idx, vtx, texture))
                    /\ UNCHANGED << pc, lock >>
    /\ UNCHANGED << conv, hwnd, data, nextView, nextEvent, delivered, consumed,
                    installs >>

\* lines 333-335: after the last mesh, backup.restore and the end of the
\* function body, where the guard is dropped.
present_end(t) ==
    /\ at(t, "p_draw")
    /\ loc[t].prims = << >>
    /\ is_some(data)
    /\ pipeline' = restore(this.backup)
    /\ SetData([this EXCEPT !.backup = None])
    /\ return(t, [loc[t] EXCEPT !.end_pipe = Some(pipeline')])
    /\ UNCHANGED << conv, hwnd, nextView, nextEvent, delivered, consumed, installs >>

\* ---------------------------------------------------------------- resize_buffers
\* resize_buffers, line 347: let this = &mut *self.lock_data();
resize_buffers_lock(t) ==
    /\ at(t, "idle")
    /\ lock_data(t, Call("resize_buffers"), "r_release")
    /\ UNCHANGED << conv, hwnd, data, pipeline, nextView, nextEvent, delivered,
                    consumed, installs >>

\* resize_buffers_release that enters original() with the view still stored.
resize_buffers_release_kept(t) ==
    /\ at(t, "r_release")
    /\ is_some(data)
    /\ SetLoc(t, [loc[t] EXCEPT !.view = this.render_view, !.calls = @ + 1])
    /\ Goto(t, "r_callback")
    /\ UNCHANGED << conv, hwnd, data, lock, pipeline, nextView, nextEvent, delivered,
                    consumed, installs >>

\* lines 348-350: drop(this.render_view.take()), then original() is entered.
resize_buffers_release(t) ==
    /\ at(t, "r_release")
    /\ is_some(data)
    /\ SetData([this EXCEPT !.render_view = None])
    /\ SetLoc(t, [loc[t] EXCEPT !.view = this.render_view, !.calls = @ + 1])
    /\ Goto(t, "r_callback")
    /\ UNCHANGED << conv, hwnd, lock, pipeline, nextView, nextEvent, delivered,
                    consumed, installs >>

\* line 350: original() returns the host's HRESULT.  The host's
\* ResizeBuffers may send the window a message while it runs; a window
\* procedure that forwards it to wnd_proc calls data.lock() on this thread,
\* under the guard taken at line 347.
resize_buffers_original(t) ==
    /\ at(t, "r_callback")
    /\ \E hr \in HResults, message \in BOOLEAN :
         IF message
           THEN /\ Goto(t, relock(t, "r_blocked", "r_reacquire"))
                /\ UNCHANGED loc
           ELSE /\ SetLoc(t, [loc[t] EXCEPT !.result = hr])
                /\ Goto(t, "r_reacquire")
    /\ UNCHANGED << conv, hwnd, data, lock, pipeline, nextView, nextEvent, delivered,
                    consumed, installs >>

\* resize_buffers_reacquire that returns S_OK whatever original() returned.
resize_buffers_reacquire_ok(t) ==
    /\ at(t, "r_reacquire")
    /\ is_some(data)
    /\ \E ok \in BOOLEAN :
         IF ~ok
           THEN unwind(t, loc[t]) /\ UNCHANGED << data, nextView >>
           ELSE /\ nextView <= MaxViews
                /\ SetData([this EXCEPT !.render_view = Some(nextView)])
                /\ nextView' = nextView + 1
                /\ return(t, [loc[t] EXCEPT !.ret = "S_OK"])
    /\ UNCHANGED << conv, hwnd, pipeline, nextEvent, delivered, consumed, installs >>

\* resize_buffers_reacquire that creates the new view and never stores it.
resize_buffers_reacquire_unstored(t) ==
    /\ at(t, "r_reacquire")
    /\ is_some(data)
    /\ \E ok \in BOOLEAN :
         IF ~ok
           THEN unwind(t, loc[t]) /\ UNCHANGED << data, nextView >>
           ELSE /\ nextView <= MaxViews
                /\ UNCHANGED data
                /\ nextView' = nextView + 1
                /\ return(t, [loc[t] EXCEPT !.ret = loc[t].result])
    /\ UNCHANGED << conv, hwnd, pipeline, nextEvent, delivered, consumed, installs >>

\* lines 352-368: GetBuffer, GetDevice, CreateRenderTargetView (expect! on
\* each), store the new view, return the callback's result.
resize_buffers_reacquire(t) ==
    /\ at(t, "r_reacquire")
    /\ is_some(data)
    /\ \E ok \in BOOLEAN :
         IF ~ok
           THEN unwind(t, loc[t]) /\ UNCHANGED << data, nextView >>
           ELSE /\ nextView <= MaxViews
                /\ SetData([this EXCEPT !.render_view = Some(nextView)])
                /\ nextView' = nextView + 1
                /\ return(t, [loc[t] EXCEPT !.ret = loc[t].result])
    /\ UNCHANGED << conv, hwnd, pipeline, nextEvent, delivered, consumed, installs >>

\* ---------------------------------------------------------------- call ends
\* The caller takes the result (or the abort) and is free to call again.
leave(t) ==
    /\ pc[t] \in {"returned", "aborted"}
    /\ Goto(t, "idle")
    /\ SetLoc(t, NoCall)
    /\ UNCHANGED << conv, hwnd, data, lock, pipeline, nextView, nextEvent, delivered,
                    consumed, installs >>

\* ---------------------------------------------------------------- Next
Next ==
    \E t \in Threads :
        \/ init_check(t)
        \/ init_hwnd(t)
        \/ init_create(t)
        \/ init_install(t)
        \/ lock_state(t)
        \/ lock_state_drop(t)
        \/ wnd_proc_lock(t)
        \/ wnd_proc_process(t)
        \/ wnd_proc_append(t)
        \/ present_lock(t)
        \/ present_begin(t)
        \/ present_run(t)
        \/ present_shapes(t)
        \/ present_config(t)
        \/ present_mesh(t)
        \/ present_end(t)
        \/ resize_buffers_lock(t)
        \/ resize_buffers_release(t)
        \/ resize_buffers_original(t)
        \/ resize_buffers_reacquire(t)
        \/ leave(t)

Spec == Init /\ [][Next]_vars

\* ---------------------------------------------------------------- run phase
\* The instance as initialization can leave it once no initialize call is
\* running: never initialized, initialize aborted after hwnd.set (lines
\* 140-168), or initialized by one call; and the entry points from there.
Outcomes == {"never", "aborted", "installed"}

InitRun ==
    /\ \E o \in Outcomes :
         /\ hwnd = IF o = "never" THEN None ELSE Some(1)
         /\ data = IF o = "installed" THEN Some(AppData("t1", Some(1))) ELSE None
         /\ nextView = IF o = "installed" THEN 2 ELSE 1
         /\ installs = IF o = "installed" THEN 1 ELSE 0
    /\ lock = Free
    /\ pipeline \in {[s \in Slots |-> h] : h \in HostConfigs}
    /\ pc = [t \in Threads |-> "idle"]
    /\ loc = [t \in Threads |-> NoCall]
    /\ nextEvent = 1
    /\ delivered = [e \in 1..MaxEvents |-> 0]
    /\ consumed = << >>
    /\ conv = NoConv

NextRun ==
    \E t \in Threads :
        \/ lock_state(t)
        \/ lock_state_drop(t)
        \/ wnd_proc_lock(t)
        \/ wnd_proc_process(t)
        \/ wnd_proc_append(t)
        \/ present_lock(t)
        \/ present_begin(t)
        \/ present_run(t)
        \/ present_shapes(t)
        \/ present_config(t)
        \/ present_mesh(t)
        \/ present_end(t)
        \/ resize_buffers_lock(t)
        \/ resize_buffers_release(t)
        \/ resize_buffers_original(t)
        \/ resize_buffers_reacquire(t)
        \/ leave(t)

SpecRun == InitRun /\ [][NextRun]_vars

\* ---------------------------------------------------------------- one mesh
\* GpuMesh::from_mesh on its own: any client rectangle, any mesh of the
\* bounded sets and any clip rectangle as arguments; then the path of one
\* primitive through present, lines 274-304: filter_map, and the index and
\* vertex buffer of each mesh it kept.
app_vars == << hwnd, data, lock, pipeline, pc, loc, nextView, nextEvent,
              delivered, consumed, installs >>

InitMesh ==
    /\ hwnd = None
    /\ data = None
    /\ lock = Free
    /\ pipeline \in {[s \in Slots |-> h] : h \in HostConfigs}
    /\ pc = [t \in Threads |-> "idle"]
    /\ loc = [t \in Threads |-> NoCall]
    /\ nextView = 1
    /\ nextEvent = 1
    /\ delivered = [e \in 1..MaxEvents |-> 0]
    /\ consumed = << >>
    /\ installs = 0
    /\ conv \in {[stage |-> "args", rect |-> rect, mesh |-> mesh, clip |-> clip,
                  out |-> None, buffers |-> 0] :
                    rect \in ClientRects, mesh \in Meshes,
                    clip \in {ClipOf(i) : i \in 1..MaxPrims}}

mesh_convert ==
    /\ conv.stage = "args"
    /\ conv' = [conv EXCEPT
                  !.stage = "converted",
                  !.out = from_mesh(get_screen_size(conv.rect), conv.mesh,
                                    conv.clip)]
    /\ UNCHANGED app_vars

mesh_upload ==
    /\ conv.stage = "converted"
    /\ \E idx_ok \in BOOLEAN, vtx_ok \in BOOLEAN :
         LET primitives ==
                 unwrap(filter_map(get_screen_size(conv.rect),
                                   << [clip_rect |-> conv.clip, kind |-> "mesh",
                                       mesh |-> conv.mesh] >>))
             call == IF primitives = << >> THEN NoCall
                     ELSE draw([NoCall EXCEPT !.prims = primitives],
                               primitives[1],
                               create_index_buffer(primitives[1], idx_ok),
                               create_vertex_buffer(primitives[1], vtx_ok), None)
         IN  conv' = [conv EXCEPT !.stage = "uploaded",
                                  !.buffers = call.buffers]
    /\ UNCHANGED app_vars

NextMesh == mesh_convert \/ mesh_upload

SpecMesh == InitMesh /\ [][NextMesh]_vars

\* ---------------------------------------------------------------- claims
Inside == {"p_begin", "p_run", "p_shapes", "p_config", "p_draw", "p_blocked",
           "r_release", "r_callback", "r_reacquire", "r_blocked",
           "wp_process", "wp_append", "ls_held"}
EntryPoints == {"present", "resize_buffers", "wnd_proc", "lock_state"}
Queue == IF is_some(data) THEN this.input_collector ELSE << >>
Ids(events) == [i \in 1..Len(events) |-> events[i].id]
EndedPresent(t) == pc[t] \in Ended /\ loc[t].op = "present"
EndedResize(t) == pc[t] \in Ended /\ loc[t].op = "resize_buffers"

\* C1: every present call that captured the pipeline snapshot has, when it
\* ends (returned or aborted), put the pipeline back to the captured state.
C1_SnapshotRestoredOnEveryExit ==
    \A t \in Threads :
        (EndedPresent(t) /\ is_some(loc[t].snap))
            => loc[t].end_pipe = loc[t].snap

\* C2: a present call whose GUI run produced empty shapes returns having
\* issued no draw call and bound none of its own states, with the pipeline
\* equal to the snapshot it captured.
C2_EmptyShapesLeaveNoTrace ==
    \A t \in Threads :
        (EndedPresent(t) /\ loc[t].ran /\ ~loc[t].shapes)
            => /\ pc[t] = "returned"
               /\ loc[t].draws = 0
               /\ ~loc[t].bound
               /\ loc[t].end_pipe = loc[t].snap
               /\ pipeline = unwrap(loc[t].snap)

C2_Witness ==
    \E t \in Threads :
        /\ EndedPresent(t) /\ loc[t].ran /\ ~loc[t].shapes
        /\ Len(loc[t].batch) > 0

\* C3 as stated: every present call on an initialized instance drains the
\* pending queue, so the queue is empty when the call ends and its GUI run
\* saw exactly the events consumed since the previous drain.
C3_DrainedByEveryPresent ==
    \A t \in Threads :
        (EndedPresent(t) /\ loc[t].locked)
            => /\ Queue = << >>
               /\ loc[t].ran => loc[t].batch = loc[t].expected

\* C3 as amended: every present call that reaches its GUI run hands that
\* run exactly the events reported consumed since the previous GUI run, in
\* order, and leaves the queue empty; no event reaches two GUI runs; and the
\* events consumed but not yet seen by a GUI run are exactly the pending
\* queue (a present call that aborts before its GUI run drains nothing).
C3_DrainedOncePerGuiRun ==
    /\ \A t \in Threads :
          (loc[t].op = "present" /\ loc[t].ran)
              => loc[t].batch = loc[t].expected /\ Queue = << >>
    /\ \A e \in DOMAIN delivered : delivered[e] <= 1
    /\ Queue = Ids(consumed)

C3_Witness ==
    \E t \in Threads :
        /\ loc[t].op = "present" /\ loc[t].ran
        /\ Len(loc[t].batch) >= 2
        /\ \A e \in DOMAIN delivered : delivered[e] = Count(e, loc[t].batch)

\* C4: the queue is never drained while an append is in progress, at most
\* one thread is inside the collector at a time, and every queued event is
\* either still pending or was handed to exactly one GUI run.
C4_EventsSerialized ==
    /\ \A t \in Threads : ~loc[t].raced
    /\ \A t, u \in Threads :
          (t # u /\ pc[t] \in {"wp_process", "wp_append"})
              => pc[u] \notin {"p_run", "wp_process", "wp_append"}
    /\ \A e \in 1..(nextEvent - 1) : delivered[e] + Count(e, Queue) = 1

C4_Witness ==
    \E t \in Threads :
        /\ pc[t] = "p_shapes"
        /\ loc[t].cross
        /\ Len(loc[t].batch) >= 2

\* C5: a resize_buffers call on an initialized instance has invoked the host
\* callback exactly once from the moment the callback is entered, and the
\* value it returns is the HRESULT the callback returned.
C5_CallbackOnceResultUnchanged ==
    \A t \in Threads :
        (loc[t].op = "resize_buffers" /\ loc[t].locked)
            => /\ loc[t].calls <= 1
               /\ pc[t] \in {"r_callback", "r_reacquire"} \cup Ended
                     => loc[t].calls = 1
               /\ pc[t] = "returned"
                     => loc[t].ret \in HResults /\ loc[t].ret = loc[t].result

C5_Witness ==
    \E t \in Threads :
        /\ pc[t] = "returned" /\ loc[t].op = "resize_buffers"
        /\ loc[t].ret = "E_FAIL"

\* C6: when a resize_buffers call returns, the stored render-target view is
\* non-null and is not the view that was stored before the call.
C6_NewViewAfterResize ==
    \A t \in Threads :
        (pc[t] = "returned" /\ loc[t].op = "resize_buffers")
            => /\ is_some(data)
               /\ is_some(this.render_view)
               /\ this.render_view # loc[t].view

C6_Witness ==
    \E t \in Threads :
        /\ pc[t] = "returned" /\ loc[t].op = "resize_buffers"
        /\ is_some(loc[t].view)

\* C7: while the host callback of resize_buffers runs, and until the new
\* view is created after it has returned, the caller holds the state lock
\* and no render-target view is stored; the new view is stored only once
\* the callback has returned.
C7_ReleaseResizeReacquire ==
    \A t \in Threads :
        /\ pc[t] \in {"r_release", "r_callback", "r_reacquire"} => lock = t
        /\ pc[t] \in {"r_callback", "r_reacquire"}
              => is_some(data) /\ is_none(this.render_view)
        /\ pc[t] = "r_callback" => loc[t].result = ""
        /\ (pc[t] = "returned" /\ loc[t].op = "resize_buffers")
              => loc[t].result \in HResults

C7_Witness ==
    \E t \in Threads :
        /\ pc[t] = "r_callback"
        /\ is_some(loc[t].view)

\* C8: at most one initialize call installs application state.
C8_AtMostOneInstall == installs <= 1

\* C9: whenever is_ready() is true the application state is installed.
C9_ReadyImpliesInstalled == is_ready => is_some(data)

\* C10: a thread inside present, resize_buffers, wnd_proc or the scope of a
\* lock_state guard holds the state lock; a thread outside does not; and
\* when one of these calls has just ended, by return or by abort, the lock
\* is free.
C10_LockHeldUntilCallEnds ==
    /\ \A t \in Threads : pc[t] \in Inside <=> lock = t
    /\ \A t \in Threads :
          (pc[t] \in Ended /\ loc[t].op \in EntryPoints) => lock = Free

C10_Witness ==
    \E t \in Threads :
        /\ pc[t] = "aborted"
        /\ loc[t].op \in {"present", "resize_buffers"}
        /\ loc[t].locked

\* C11: every present, resize_buffers and wnd_proc call ends, by return or
\* by abort; in particular no call waits, inside the ui closure of present
\* or inside the host callback of resize_buffers, for the state lock that
\* its own thread holds: such a wait can never end.
C11_NoCallWaitsOnItself ==
    \A t \in Threads :
        pc[t] \in {"p_blocked", "r_blocked"} => lock # t

\* C12: on an initialized instance the stored render-target view is
\* non-null whenever no resize_buffers call is between taking the old view
\* out and storing the new one; so it is non-null whenever the lock is free.
BetweenReleaseAndRecreate(t) == pc[t] \in {"r_callback", "r_reacquire", "r_blocked"}

C12_ViewStoredOutsideResize ==
    (is_some(data) /\ \A t \in Threads : ~BetweenReleaseAndRecreate(t))
        => is_some(this.render_view)

\* C13: a present call that finds the stored render-target view null issues
\* no draw call, restores the snapshot and returns normally.
C13_NullViewSkipsFrame ==
    \A t \in Threads :
        (EndedPresent(t) /\ loc[t].no_view)
            => /\ pc[t] = "returned"
               /\ loc[t].draws = 0
               /\ loc[t].end_pipe = loc[t].snap

\* C14: a render-target view that a present call has cleared or bound is
\* the view stored at that moment and stays stored while the call runs: no
\* resize_buffers call of another thread is between release and recreate,
\* and the view has not been released.
C14_ViewUseNeverOverlapsResize ==
    \A t \in Threads :
        (loc[t].op = "present" /\ is_some(loc[t].used))
            => /\ is_some(data)
               /\ this.render_view = loc[t].used
               /\ \A u \in Threads : ~BetweenReleaseAndRecreate(u)

C14_Witness ==
    \E t \in Threads :
        /\ pc[t] = "p_draw"
        /\ is_some(loc[t].used)
        /\ unwrap(loc[t].used) > 1

\* C15: a present, resize_buffers or wnd_proc call that starts while no
\* application state is installed ends aborted in that step and changes
\* nothing: no event queued, no pipeline slot written, the host callback
\* not invoked, the instance still without state, the lock as it was.
C15_NoEffectBeforeInit ==
    [][\A t \in Threads :
          (/\ pc[t] = "idle" /\ pc'[t] # "idle"
           /\ loc'[t].op \in {"present", "resize_buffers", "wnd_proc"}
           /\ is_none(data))
              => /\ pc'[t] = "aborted"
                 /\ loc'[t] = Call(loc'[t].op)
                 /\ UNCHANGED << hwnd, data, lock, pipeline, nextView,
                                 nextEvent, delivered, consumed, installs >>]_vars

C15_Witness ==
    \E t \in Threads :
        /\ pc[t] = "aborted"
        /\ loc[t].op = "resize_buffers"
        /\ ~loc[t].locked
        /\ is_none(data) /\ is_some(hwnd)

\* C16: from_mesh returns None exactly when the index list is empty or its
\* length is not a multiple of 3, and then no GPU buffer is created for the
\* mesh; otherwise the result has as many vertices as the mesh, the same
\* index list, and the clip rectangle it was given.
Degenerate(mesh) == Len(mesh.indices) = 0 \/ Len(mesh.indices) % 3 # 0

C16_FromMeshKeepsWholeTriangles ==
    conv.stage \in {"converted", "uploaded"}
        => /\ is_none(conv.out) <=> Degenerate(conv.mesh)
           /\ is_none(conv.out) => conv.buffers = 0
           /\ is_some(conv.out)
                => /\ Len(unwrap(conv.out).vertices) = Len(conv.mesh.vertices)
                   /\ unwrap(conv.out).indices = conv.mesh.indices
                   /\ unwrap(conv.out).clip = conv.clip

C16_Witness ==
    /\ conv.stage = "uploaded"
    /\ Len(conv.mesh.indices) = 6
    /\ Len(conv.mesh.vertices) = 1
    /\ conv.buffers = 2

\* C17: for every screen size get_screen_size returns and every vertex of a
\* converted mesh whose pixel position lies in [0, w] x [0, h], both
\* coordinates of the produced position lie in [-1, 1].
InUnit(a) == a.den > 0 /\ -a.den <= a.num /\ a.num <= a.den
Within(a, lo, hi) ==
    /\ lo.num * a.den <= a.num * lo.den
    /\ a.num * hi.den <= hi.num * a.den

C17_PositionsInClipSpace ==
    (conv.stage \in {"converted", "uploaded"} /\ is_some(conv.out))
        => LET size == get_screen_size(conv.rect) IN
           \A i \in 1..Len(conv.mesh.vertices) :
              (/\ Within(conv.mesh.vertices[i].pos[1], from_i32(0), size[1])
               /\ Within(conv.mesh.vertices[i].pos[2], from_i32(0), size[2]))
                 => /\ InUnit(unwrap(conv.out).vertices[i].pos[1])
                    /\ InUnit(unwrap(conv.out).vertices[i].pos[2])

\* C18: in a present call whose tessellation output holds no paint callback
\* the DrawIndexed calls are, in order, the meshes of the output whose index
\* count is a positive multiple of 3: each drawn once with its own index
\* count and with the scissor rectangle made from its own clip rectangle,
\* none of the other meshes drawn, and all of them drawn when the call
\* returns.
Drawable(kinds) ==
    SelectSeq(tessellate(kinds),
              LAMBDA prim : prim.kind = "mesh" /\ ~Degenerate(prim.mesh))

C18_DrawsFollowTessellation ==
    \A t \in Threads :
        (loc[t].op = "present" /\ ~HasCallback(loc[t].tess))
            => LET want == Drawable(loc[t].tess)
                   log == loc[t].log
               IN  /\ Len(log) <= Len(want)
                   /\ Len(log) = loc[t].draws
                   /\ pc[t] = "returned" => Len(log) = Len(want)
                   /\ \A j \in 1..Len(log) :
                         /\ log[j].scissor = RECT(want[j].clip_rect)
                         /\ log[j].count = Len(want[j].mesh.indices)
                         /\ log[j].texture_id = want[j].mesh.texture_id

C18_Witness ==
    \E t \in Threads :
        /\ pc[t] = "returned" /\ loc[t].op = "present"
        /\ Len(loc[t].tess) = 2
        /\ loc[t].tess[1] = "degenerate"
        /\ Len(loc[t].log) = 1

\* C19: at every DrawIndexed call whose texture lookup succeeded the
\* texture found is the one at slot 0; at every DrawIndexed call whose
\* lookup failed no texture of the allocator is at slot 0; a failed lookup
\* does not abort the frame and the mesh is drawn all the same.
C19_TextureAtDraw ==
    \A t \in Threads :
        \A j \in 1..Len(loc[t].log) :
            LET d == loc[t].log[j] IN
            /\ d.found => d.srv = Some(d.texture_id)
            /\ ~d.found => is_none(d.srv)

\* C20: a present call whose tessellation output holds a paint callback at
\* any position aborts having bound none of its own pipeline state, created
\* no GPU buffer and issued no draw call, also for the meshes before the
\* callback.
C20_CallbackAbortsBeforeDrawing ==
    \A t \in Threads :
        (loc[t].op = "present" /\ HasCallback(loc[t].tess))
            => /\ pc[t] = "aborted"
               /\ ~loc[t].bound
               /\ loc[t].buffers = 0
               /\ loc[t].draws = 0
               /\ loc[t].log = << >>
               /\ loc[t].end_pipe = loc[t].snap
               /\ pipeline = unwrap(loc[t].snap)

C20_Witness ==
    \E t \in Threads :
        /\ pc[t] = "aborted" /\ loc[t].op = "present"
        /\ Len(loc[t].tess) = 2
        /\ loc[t].tess[1] = "mesh"
        /\ loc[t].tess[2] = "callback"

====
